---- MODULE Spec2Model ----
(***************************************************************************)
(* Model of lab5.py: HarmonicVisualizer, an interactive plot of a harmonic *)
(* signal, the same signal with Gaussian noise, and its moving average.    *)
(*                                                                         *)
(* Numbers.  Python floats are modelled in fixed point:                    *)
(*   - the six parameters and the slider values are in tenths              *)
(*     (amplitude 1.0 is 10, noise variance 0.2 is 2);                     *)
(*   - samples (pure, noise, noisy, filtered, the lines' ydata) are in     *)
(*     hundredths;                                                         *)
(*   - the time base holds the index k of the instant k * 10 / (N - 1).    *)
(* A call that can raise returns Return(value) or Raise(ValueError); the   *)
(* variable raised holds the exception that left the last handler.         *)
(***************************************************************************)
EXTENDS Integers, Sequences, FiniteSets

\* ------------------------------------------------------------- bounds
\* Number of states of the pseudorandom generator np.random.
RngStates == 2
\* len(self.t), the number of samples: np.linspace(0, 10, 1000) in the source,
\* N here.  Every operator below is written for any N; N is kept above the
\* filter window so that the signal is the longer operand of np.convolve, as
\* it is in the source.
N == 12
\* FilterSpec: longest signal handed to _apply_filter.
MaxLen == 3
\* FilterSpec: largest window handed to _apply_filter.
MaxWin == 4
\* FilterSpec: samples of the signals are in -MaxSample..MaxSample.
MaxSample == 1

\* ---------------------------------------------------------- constants
\* self.filter_window = 10.
DefaultWindow == 10

ValueError == "ValueError"

\* The outcome of a call that returns v.
Return(v) ==
  [error |-> "none", value |-> v]

\* The outcome of a call that raises the exception e.
Raise(e) ==
  [error |-> e, value |-> <<>>]

\* The raw values the user can drag each slider to, over the slider's range
\* and beyond it on both sides (a drag that leaves the slider's axes).
RawValues ==
  [amplitude  |-> {0, 25, 60},
   frequency  |-> {0, 31},
   noise_mean |-> {-11, 11},
   covariance |-> {-1, 11}]

VARIABLES self, np_random, raised, event, calls

vars == <<self, np_random, raised, event, calls>>

\* ------------------------------------------------------------- numpy
RECURSIVE SumRange(_, _, _)
\* sum of f[k] for k in lo..hi
SumRange(f, lo, hi) ==
  IF lo > hi THEN 0 ELSE f[lo] + SumRange(f, lo + 1, hi)

\* np.linspace(0, 10, count): the instants k * 10 / (count - 1), held as k.
np_linspace(count) ==
  [i \in 1..count |-> i - 1]

\* np_sqrt with a floor of 0.01 on the result.
np_sqrt_floored(x) ==
  1 + (CHOOSE r \in 0..(1000 * x + 1) : r * r <= 1000 * x /\ (r + 1) * (r + 1) > 1000 * x)

\* np.sqrt of a value in tenths, in hundredths: floor(100 * sqrt(x / 10)).
np_sqrt(x) ==
  CHOOSE r \in 0..(1000 * x + 1) : r * r <= 1000 * x /\ (r + 1) * (r + 1) > 1000 * x

\* np.sin of an angle given in units of 1/(2h) turn (h units are pi radians), in
\* hundredths, by Bhaskara's rational approximation
\*   sin(pi * x / h) ~ 16 x (h - x) / (5 h^2 - 4 x (h - x)),  0 <= x <= h.
np_sin(u, h) ==
  LET x   == u % h
      p   == x * (h - x)
      den == 5 * h * h - 4 * p
      mag == (16 * p * 100 + den \div 2) \div den
  IN  IF (u % (2 * h)) < h THEN mag ELSE 0 - mag

\* np.ones(n): raises ValueError for a negative n.
np_ones(n) ==
  IF n < 0 THEN Raise(ValueError) ELSE Return([k \in 1..n |-> 1])

\* np.convolve(a, v, mode='full')[k], k from 1: sum of a[j] * v[k - j + 1].
ConvolveFull(a, v, k) ==
  LET lo == IF k - Len(v) + 1 > 1 THEN k - Len(v) + 1 ELSE 1
      hi == IF k < Len(a) THEN k ELSE Len(a)
      terms == [j \in lo..hi |-> a[j] * v[k - j + 1]]
  IN  SumRange(terms, lo, hi)

\* np_convolve_same with the slice of the full convolution starting
\* min(len(a), len(v)) // 2 values in.
np_convolve_off_centre(a, v) ==
  IF Len(a) = 0 \/ Len(v) = 0 THEN Raise(ValueError)
  ELSE LET long  == IF Len(v) > Len(a) THEN v ELSE a
           short == IF Len(v) > Len(a) THEN a ELSE v
           skip  == Len(short) \div 2
       IN  Return([i \in 1..Len(long) |-> ConvolveFull(long, short, i + skip)])

\* np.convolve(a, v, mode='same'): raises ValueError when a or v is empty; swaps
\* a and v when v is the longer; returns the middle max(len(a), len(v)) values of
\* the full convolution, starting (min(len(a), len(v)) - 1) // 2 values in.
np_convolve_same(a, v) ==
  IF Len(a) = 0 \/ Len(v) = 0 THEN Raise(ValueError)
  ELSE LET long  == IF Len(v) > Len(a) THEN v ELSE a
           short == IF Len(v) > Len(a) THEN a ELSE v
           skip  == (Len(short) - 1) \div 2
       IN  Return([i \in 1..Len(long) |-> ConvolveFull(long, short, i + skip)])

\* One draw of the standard normal generator in state rng, for sample i.
StdNormal(rng, i) ==
  (((rng + 1) * (i + rng) * 7) % 5) - 2

\* np.random.normal(loc, scale, size): loc + scale * z[i]; loc in tenths, scale
\* in hundredths, result in hundredths.
np_random_normal(loc, scale, size, rng) ==
  [i \in 1..size |-> 10 * loc + scale * StdNormal(rng, i)]

\* The generator state after one call of np.random.normal.
np_random_advance(rng) ==
  (rng + 1) % RngStates

\* --------------------------------------------------- matplotlib widgets
\* Slider(ax, label, valmin, valmax, valinit=...), lines 63-66.
SliderNames == <<"amplitude", "frequency", "noise_mean", "covariance">>

SliderRange ==
  [amplitude  |-> [valmin |-> 1,   valmax |-> 50, valinit |-> 10],
   frequency  |-> [valmin |-> 1,   valmax |-> 30, valinit |-> 10],
   noise_mean |-> [valmin |-> -10, valmax |-> 10, valinit |-> 0],
   covariance |-> [valmin |-> 0,   valmax |-> 10, valinit |-> 2]]

\* value_in_bounds without the clipping at valmax.
value_clipped_below(name, val) ==
  IF val <= SliderRange[name].valmin THEN SliderRange[name].valmin ELSE val

\* Slider._value_in_bounds: a dragged value is clipped to [valmin, valmax].
value_in_bounds(name, val) ==
  IF val <= SliderRange[name].valmin THEN SliderRange[name].valmin
  ELSE IF val >= SliderRange[name].valmax THEN SliderRange[name].valmax
  ELSE val

\* ----------------------------------------------------- HarmonicVisualizer
\* The parameters of the object o, as a record.
Parameters(o) ==
  [amplitude |-> o.amplitude, frequency |-> o.frequency, phase |-> o.phase,
   noise_mean |-> o.noise_mean, noise_variance |-> o.noise_covariance,
   filter_window |-> o.filter_window]

\* The phase (radians, in tenths) in units of 1/(2 (n - 1)) turn.
PhaseUnits(phase, n) ==
  (phase * (n - 1) * 100) \div 3142

\* self.amplitude * np.sin(2 * np.pi * self.frequency * self.t + self.phase)
_calculate_harmonic(o) ==
  LET n == Len(o.t)
  IN  [i \in 1..n |->
         (o.amplitude * np_sin((2 * o.frequency * o.t[i] + PhaseUnits(o.phase, n)) % (2 * (n - 1)), n - 1)) \div 10]

\* np.random.normal(self.noise_mean, np.sqrt(self.noise_covariance), len(self.t))
_generate_noise(o, rng) ==
  np_random_normal(o.noise_mean, np_sqrt(o.noise_covariance), Len(o.t), rng)

\* _apply_filter with mode='full'.
_apply_filter_full(o) ==
  LET n == Len(o.noisy_signal) + o.filter_window - 1
  IN  Return([i \in 1..n |-> ConvolveFull(o.noisy_signal, np_ones(o.filter_window).value, i) \div o.filter_window])

\* _apply_filter that takes a window below 1 as 1.
_apply_filter_lenient(o) ==
  LET w    == IF o.filter_window < 1 THEN 1 ELSE o.filter_window
      conv == np_convolve_same(o.noisy_signal, np_ones(w).value)
  IN  IF conv.error # "none" THEN conv
      ELSE Return([i \in 1..Len(conv.value) |-> conv.value[i] \div w])

\* window = np.ones(self.filter_window) / self.filter_window
\* np.convolve(self.noisy_signal, window, mode='same')
\* The division by filter_window is applied to the convolution with np.ones.
_apply_filter(o) ==
  LET ones == np_ones(o.filter_window)
      conv == IF ones.error # "none" THEN ones ELSE np_convolve_same(o.noisy_signal, ones.value)
  IN  IF conv.error # "none" THEN conv
      ELSE Return([i \in 1..Len(conv.value) |-> conv.value[i] \div o.filter_window])

\* self.pure_signal + self.noise
AddSignals(a, b) ==
  [i \in 1..Len(a) |-> a[i] + b[i]]

\* _update that filters before it replaces self.noisy_signal.
_update_stale(w) ==
  LET s0 == w.self
      s1 == [s0 EXCEPT !.amplitude = s0.sliders["amplitude"],
                       !.frequency = s0.sliders["frequency"],
                       !.noise_mean = s0.sliders["noise_mean"],
                       !.noise_covariance = s0.sliders["covariance"]]
      s2 == [s1 EXCEPT !.pure_signal = _calculate_harmonic(s1)]
      s3 == [s2 EXCEPT !.noise = _generate_noise(s2, w.rng)]
      s4 == [s3 EXCEPT !.filtered_signal = _apply_filter(s3).value]
      s5 == [s4 EXCEPT !.noisy_signal = AddSignals(s4.pure_signal, s4.noise)]
      s6 == [s5 EXCEPT !.pure_line.ydata = s5.pure_signal,
                       !.noisy_line.ydata = s5.noisy_signal,
                       !.filtered_line.ydata = s5.filtered_signal]
  IN  [self |-> s6, rng |-> np_random_advance(w.rng), raised |-> "none",
       calls |-> Append(w.calls, Parameters(s1))]

\* _update(self, val).  w is the world: the object, the generator state, the
\* exception that has left the call and the calls of _update made by the
\* current event.  An exception of _apply_filter leaves _update at line 97,
\* after lines 88-96 have assigned and before the lines are updated.
_update(w) ==
  LET s0 == w.self
      s1 == [s0 EXCEPT !.amplitude = s0.sliders["amplitude"],
                       !.frequency = s0.sliders["frequency"],
                       !.noise_mean = s0.sliders["noise_mean"],
                       !.noise_covariance = s0.sliders["covariance"]]
      s2 == [s1 EXCEPT !.pure_signal = _calculate_harmonic(s1)]
      s3 == [s2 EXCEPT !.noise = _generate_noise(s2, w.rng)]
      s4 == [s3 EXCEPT !.noisy_signal = AddSignals(s3.pure_signal, s3.noise)]
      filtered == _apply_filter(s4)
      s5 == [s4 EXCEPT !.filtered_signal = filtered.value]
      s6 == [s5 EXCEPT !.pure_line.ydata = s5.pure_signal,
                       !.noisy_line.ydata = s5.noisy_signal,
                       !.filtered_line.ydata = s5.filtered_signal]
      log == Append(w.calls, Parameters(s1))
      rng == np_random_advance(w.rng)
  IN  IF filtered.error # "none"
        THEN [self |-> s4, rng |-> rng, raised |-> filtered.error, calls |-> log]
        ELSE [self |-> s6, rng |-> rng, raised |-> "none", calls |-> log]

\* Slider.set_val(val): stores val and calls the on_changed observers (line 70).
\* The source installs no handler: an exception of _update leaves set_val with
\* val stored.
set_val(w, name, val) ==
  _update([w EXCEPT !.self.sliders[name] = val])

\* Slider.reset(): set_val(valinit) when val differs from valinit; an exception
\* of set_val leaves reset.
slider_reset(w, name) ==
  IF w.self.sliders[name] # SliderRange[name].valinit
    THEN set_val(w, name, SliderRange[name].valinit)
    ELSE w

RECURSIVE ResetSliders(_, _)
\* for slider in self.sliders.values(): slider.reset()   (from the i-th slider on)
\* An exception that leaves slider.reset() ends the loop: the later sliders
\* keep their values.
ResetSliders(w, i) ==
  IF i > Len(SliderNames) \/ w.raised # "none" THEN w
  ELSE ResetSliders(slider_reset(w, SliderNames[i]), i + 1)

\* _reset without the loop over the sliders.
_reset_update_only(w) ==
  _update(w)

\* _reset(self, event): an exception that leaves the loop leaves _reset, and
\* line 115 does not run.
_reset(w) ==
  LET r == ResetSliders(w, 1)
  IN  IF r.raised # "none" THEN r ELSE _update(r)

\* _update_visibility that toggles both lines whatever the label.
_update_visibility_both(o, label) ==
  [o EXCEPT !.noisy_line.visible = ~o.noisy_line.visible,
            !.filtered_line.visible = ~o.filtered_line.visible]

\* _update_visibility(self, label)
_update_visibility(o, label) ==
  IF label = "Show Noise"
    THEN [o EXCEPT !.noisy_line.visible = ~o.noisy_line.visible]
  ELSE IF label = "Show Filtered"
    THEN [o EXCEPT !.filtered_line.visible = ~o.filtered_line.visible]
  ELSE o

\* __init__ and _setup_plot
Construct(rng) ==
  LET s0 == [amplitude |-> 10, frequency |-> 10, phase |-> 0, noise_mean |-> 0,
             noise_covariance |-> 2, filter_window |-> DefaultWindow,
             t |-> np_linspace(N)]
      pure  == _calculate_harmonic(s0)
      noise == _generate_noise(s0, rng)
      noisy == AddSignals(pure, noise)
      s1 == [amplitude |-> s0.amplitude, frequency |-> s0.frequency, phase |-> s0.phase,
             noise_mean |-> s0.noise_mean, noise_covariance |-> s0.noise_covariance,
             filter_window |-> s0.filter_window, t |-> s0.t,
             pure_signal |-> pure, noise |-> noise, noisy_signal |-> noisy]
      filtered == _apply_filter(s1)
  IN  [amplitude |-> s0.amplitude, frequency |-> s0.frequency, phase |-> s0.phase,
       noise_mean |-> s0.noise_mean, noise_covariance |-> s0.noise_covariance,
       filter_window |-> s0.filter_window, t |-> s0.t,
       pure_signal |-> pure, noise |-> noise, noisy_signal |-> noisy,
       filtered_signal |-> filtered.value,
       pure_line |-> [ydata |-> pure, visible |-> TRUE],
       noisy_line |-> [ydata |-> noisy, visible |-> TRUE],
       filtered_line |-> [ydata |-> filtered.value, visible |-> TRUE],
       sliders |-> [n \in DOMAIN SliderRange |-> value_in_bounds(n, s0[IF n = "covariance" THEN "noise_covariance" ELSE n])]]

\* ------------------------------------------------------------ the program
World ==
  [self |-> self, rng |-> np_random, raised |-> "none", calls |-> <<>>]

\* The handler has returned (or raised), leaving the world w.
Commit(w) ==
  /\ self' = w.self
  /\ np_random' = w.rng
  /\ raised' = w.raised
  /\ calls' = w.calls

\* visualizer = HarmonicVisualizer(): the generator is seeded from the system.
Init ==
  /\ \E seed \in 0..(RngStates - 1) :
       /\ self = Construct(seed)
       /\ np_random = np_random_advance(seed)
  /\ raised = "none"
  /\ event = [kind |-> "init", name |-> "none"]
  /\ calls = <<>>

\* The user drags a slider: Slider._update clips the value and, when it differs
\* from the current one, calls set_val.
SliderChanged ==
  \E name \in DOMAIN RawValues : \E raw \in RawValues[name] :
    /\ value_in_bounds(name, raw) # self.sliders[name]
    /\ event' = [kind |-> "changed", name |-> name]
    /\ Commit(set_val(World, name, value_in_bounds(name, raw)))

\* The user clicks the Reset button.
ResetClicked ==
  /\ event' = [kind |-> "reset", name |-> "none"]
  /\ Commit(_reset(World))

\* The user clicks one of the check boxes.
CheckClicked ==
  \E label \in {"Show Noise", "Show Filtered"} :
    /\ event' = [kind |-> "clicked", name |-> label]
    /\ Commit([World EXCEPT !.self = _update_visibility(self, label)])

Next ==
  \/ SliderChanged
  \/ ResetClicked
  \/ CheckClicked

Spec == Init /\ [][Next]_vars

\* ------------------------------------------------- _apply_filter alone
\* The signals handed to _apply_filter: every sequence of at most MaxLen
\* samples among -1.00, 0.00, 1.00 (with MaxSample = 1).
Signals ==
  UNION {[1..n -> {100 * k : k \in (0 - MaxSample)..MaxSample}] : n \in 0..MaxLen}

\* An object holding the fields _apply_filter reads (noisy_signal and
\* filter_window) and the one its caller assigns (filtered_signal).
FilterInit ==
  /\ \E sig \in Signals : \E win \in (0 - 1)..MaxWin :
       self = [noisy_signal |-> sig, filter_window |-> win, filtered_signal |-> <<>>]
  /\ np_random = 0
  /\ raised = "none"
  /\ event = [kind |-> "init", name |-> "none"]
  /\ calls = <<>>

\* self.filtered_signal = self._apply_filter()
ApplyFilter ==
  /\ event.kind = "init"
  /\ LET r == _apply_filter(self)
     IN  /\ self' = IF r.error = "none" THEN [self EXCEPT !.filtered_signal = r.value] ELSE self
         /\ raised' = r.error
  /\ event' = [kind |-> "apply_filter", name |-> "none"]
  /\ UNCHANGED <<np_random, calls>>

FilterNext ==
  ApplyFilter

FilterSpec == FilterInit /\ [][FilterNext]_vars

\* ------------------------------------------------------------ properties
\* The defaults of section 8 of the specification, in tenths.
DocumentedDefaults ==
  [amplitude |-> 10, frequency |-> 10, phase |-> 0, noise_mean |-> 0,
   noise_variance |-> 2, filter_window |-> 10]

\* sig[j], and 0 outside the signal.
Padded(sig, j) ==
  IF j \in 1..Len(sig) THEN sig[j] ELSE 0

RECURSIVE PaddedSum(_, _, _)
\* sum of Padded(sig, j) for j in lo..hi
PaddedSum(sig, lo, hi) ==
  IF lo > hi THEN 0 ELSE Padded(sig, lo) + PaddedSum(sig, lo + 1, hi)

\* The moving average of window w, zero-padded, divisor w everywhere, the
\* window reaching w div 2 samples back and (w - 1) div 2 samples forward.
MovingAverage(sig, w) ==
  [i \in 1..Len(sig) |-> PaddedSum(sig, i - (w \div 2), i + ((w - 1) \div 2)) \div w]

\* The generator state before the last draw.
PreviousRng ==
  (np_random + RngStates - 1) % RngStates

\* C1: after a reset event, _update has run exactly once, from the default
\* parameters: no recompute from a partially reset parameter set, one draw of
\* the noise.  (Stated as the claim states it; the code violates it.)
C1_ResetRecomputesOnce ==
  event.kind = "reset" => calls = <<DocumentedDefaults>>

\* C2: once a reset event has been handled, the parameters are the documented
\* defaults.
C2_ResetRestoresDefaults ==
  event.kind = "reset" => Parameters(self) = DocumentedDefaults

C2_Witness ==
  /\ event.kind = "reset"
  /\ Len(calls) = 5
  /\ ~self.noisy_line.visible
  /\ Parameters(self) = DocumentedDefaults

\* C3: in every idle state pure is the harmonic of the current parameters,
\* noisy = pure + noise of the last draw, filtered is the moving average of that
\* noisy signal, and the lines show these three sequences.
C3_OneRecompute ==
  /\ self.pure_signal = _calculate_harmonic(self)
  /\ self.noise = _generate_noise(self, PreviousRng)
  /\ Len(self.noisy_signal) = Len(self.pure_signal)
  /\ \A i \in 1..Len(self.pure_signal) : self.noisy_signal[i] = self.pure_signal[i] + self.noise[i]
  /\ self.filtered_signal = MovingAverage(self.noisy_signal, self.filter_window)
  /\ self.pure_line.ydata = self.pure_signal
  /\ self.noisy_line.ydata = self.noisy_signal
  /\ self.filtered_line.ydata = self.filtered_signal

C3_Witness ==
  /\ event.kind = "changed"
  /\ self.amplitude # 10
  /\ self.noise_covariance # 2
  /\ self.noisy_signal # self.pure_signal
  /\ self.filtered_signal = MovingAverage(self.noisy_signal, self.filter_window)
  /\ self.filtered_signal # MovingAverage(self.pure_signal, self.filter_window)

\* C4: pure, noisy, filtered and the time base all have the same length, N.
C4_SameLength ==
  /\ Len(self.t) = N
  /\ Len(self.pure_signal) = N
  /\ Len(self.noisy_signal) = N
  /\ Len(self.filtered_signal) = N

C4_Witness ==
  /\ event.kind = "reset"
  /\ Len(calls) > 1
  /\ Len(self.filtered_signal) = N

\* C5: a visibility toggle changes the visible flag of the named line and
\* nothing else: parameters, sliders, signals, published data and generator
\* state stay, and _update is not called.
C5_ToggleFrame ==
  [][event'.kind = "clicked" =>
       /\ self' = IF event'.name = "Show Noise"
                    THEN [self EXCEPT !.noisy_line.visible = ~self.noisy_line.visible]
                    ELSE [self EXCEPT !.filtered_line.visible = ~self.filtered_line.visible]
       /\ np_random' = np_random
       /\ calls' = <<>>
       /\ raised' = "none"]_vars

C5_Witness ==
  /\ event = [kind |-> "clicked", name |-> "Show Filtered"]
  /\ ~self.filtered_line.visible
  /\ self.noisy_line.visible
  /\ Parameters(self) # DocumentedDefaults

\* C7: the stored parameters stay inside their declared ranges, and
\* filter_window is a positive integer.
C7_ParametersInRange ==
  /\ self.amplitude \in 1..50
  /\ self.frequency \in 1..30
  /\ self.noise_mean \in (0 - 10)..10
  /\ self.noise_covariance \in 0..10
  /\ self.filter_window \in Nat \ {0}

C7_Witness ==
  /\ event = [kind |-> "changed", name |-> "covariance"]
  /\ self.noise_covariance = 0
  /\ self.amplitude = 50
  /\ self.noise_mean = 0 - 10

\* C8 as stated: with noise_variance = 0 a recompute yields noisy = pure.
C8_ZeroVarianceNoisyIsPure ==
  (calls # <<>> /\ self.noise_covariance = 0) => self.noisy_signal = self.pure_signal

\* C8 amended: with noise_variance = 0 a recompute yields
\* noisy[i] = pure[i] + noise_mean, so noisy = pure when noise_mean is 0 too.
C8_ZeroVarianceNoisyIsShifted ==
  (calls # <<>> /\ self.noise_covariance = 0) =>
    /\ \A i \in 1..N : self.noisy_signal[i] = self.pure_signal[i] + 10 * self.noise_mean
    /\ self.noise_mean = 0 => self.noisy_signal = self.pure_signal

C8_Witness ==
  /\ calls # <<>>
  /\ self.noise_covariance = 0
  /\ self.noise_mean = 0
  /\ self.noisy_signal = self.pure_signal
  /\ \E i \in 1..N : self.pure_signal[i] # 0

\* C9: _apply_filter with a window below 1 raises instead of returning a
\* filtered sequence.
C9_WindowBelowOneRaises ==
  (event.kind = "apply_filter" /\ self.filter_window < 1) =>
    /\ raised = ValueError
    /\ self.filtered_signal = <<>>

C9_Witness ==
  /\ event.kind = "apply_filter"
  /\ self.filter_window = 0
  /\ Len(self.noisy_signal) = MaxLen
  /\ raised = ValueError

\* C10: for 1 <= w <= len(signal) the output is the zero-padded moving average
\* with divisor w, reaching w div 2 samples back and (w - 1) div 2 forward; a
\* window of 1 returns the input.
C10_ZeroPaddedAverage ==
  (event.kind = "apply_filter" /\ self.filter_window \in 1..Len(self.noisy_signal)) =>
    /\ raised = "none"
    /\ self.filtered_signal = MovingAverage(self.noisy_signal, self.filter_window)
    /\ self.filter_window = 1 => self.filtered_signal = self.noisy_signal

C10_Witness ==
  /\ event.kind = "apply_filter"
  /\ self.filter_window = 2
  /\ self.noisy_signal = <<100, 0, 100>>
  /\ self.filtered_signal = <<50, 50, 50>>

====
